---- MODULE Spec2Model ----
(***************************************************************************)
(* CardENV (src/src/main.cpp): the page/state engine of the ENV-III sensor *)
(* display.  The state is the sketch's global variables, the clock behind  *)
(* millis(), the backlight level last commanded to the display and a few   *)
(* history variables recording what an iteration of loop() did.            *)
(*                                                                         *)
(* Floats are fixed-point integers in hundredths (20.0 is 2000); every     *)
(* sample stored in the history below is a multiple of 0.5, for which the  *)
(* Fahrenheit conversion, the midpoint and the 10% padding are exact.      *)
(* millis() is an unsigned 32-bit counter; the horizons stay far below     *)
(* 2^31, so no subtraction of two clock readings wraps.                    *)
(***************************************************************************)
EXTENDS Integers, Sequences, FiniteSets, TLC

VARIABLES
    temperature, humidity, pressure,
    dispTemp, dispHumidity, dispPressure,
    tempHistory, humidityHistory, pressureHistory,
    historyIndex, historyCount, lastHistoryUpdate,
    currentPage, lastActivityTime, normalBrightness, screenState,
    lastDisplayUpdate, needsFullRedraw, graphDispValue,
    useFahrenheit, screenTimeoutOption, settingsSelection,
    clock,          \* what millis() returns
    brightness,     \* the level last given to Display.setBrightness
    graph,          \* what drawGraphPageStatic last computed and plotted
    drawnPage,      \* history variable: the page last drawn in full, -1 if none
    appended,       \* history variable: every sample stored, oldest first
    ev,             \* history variable: what the last iteration of loop() did
    script          \* the iterations still prescribed to the run, if any

vars == <<temperature, humidity, pressure, dispTemp, dispHumidity, dispPressure,
          tempHistory, humidityHistory, pressureHistory, historyIndex,
          historyCount, lastHistoryUpdate, currentPage, lastActivityTime,
          normalBrightness, screenState, lastDisplayUpdate, needsFullRedraw,
          graphDispValue, useFahrenheit, screenTimeoutOption, settingsSelection,
          clock, brightness, graph, drawnPage, appended, ev, script>>

-----------------------------------------------------------------------------
(* Program constants *)

historySize == 60

historyInterval == 60000

displayInterval == 1000

loopDelay == 50

\* screenTimeoutValues[] = {10000, 30000, 0}, indexed from 0 in the source
screenTimeoutValues == <<10000, 30000, 0>>

\* delay(100) + delay(300) + delay(100) + delay(2000) in setup()
setupDelays == 100 + 300 + 100 + 2000

\* a float literal n.0 in hundredths
Fix(n) == n * 100

\* -999.0, the "not drawn yet" value of the display caches
Unset == Fix(-999)

-----------------------------------------------------------------------------
(* Bounds of the model *)

\* idle stretches of 10 s that a run of the main specification may hold
MaxLong == 4

\* iterations of the bare 50 ms delay within one 10 s stretch
MaxShort == 3

\* samples a run of the history specification stores
MaxAppends == 62

\* times the sensor reading changes in a run of the history specification
MaxChanges == 1

-----------------------------------------------------------------------------
(* The state as one record, so that the functions of the sketch can be       *)
(* written as functions from state to state and composed as loop() does.     *)

State ==
    [temperature |-> temperature, humidity |-> humidity, pressure |-> pressure,
     dispTemp |-> dispTemp, dispHumidity |-> dispHumidity,
     dispPressure |-> dispPressure,
     tempHistory |-> tempHistory, humidityHistory |-> humidityHistory,
     pressureHistory |-> pressureHistory,
     historyIndex |-> historyIndex, historyCount |-> historyCount,
     lastHistoryUpdate |-> lastHistoryUpdate,
     currentPage |-> currentPage, lastActivityTime |-> lastActivityTime,
     normalBrightness |-> normalBrightness, screenState |-> screenState,
     lastDisplayUpdate |-> lastDisplayUpdate,
     needsFullRedraw |-> needsFullRedraw, graphDispValue |-> graphDispValue,
     useFahrenheit |-> useFahrenheit,
     screenTimeoutOption |-> screenTimeoutOption,
     settingsSelection |-> settingsSelection,
     brightness |-> brightness, graph |-> graph, drawnPage |-> drawnPage,
     redraw |-> "none", stored |-> FALSE, drawn |-> {}]

Commit(s) ==
    /\ temperature' = s.temperature
    /\ humidity' = s.humidity
    /\ pressure' = s.pressure
    /\ dispTemp' = s.dispTemp
    /\ dispHumidity' = s.dispHumidity
    /\ dispPressure' = s.dispPressure
    /\ tempHistory' = s.tempHistory
    /\ humidityHistory' = s.humidityHistory
    /\ pressureHistory' = s.pressureHistory
    /\ historyIndex' = s.historyIndex
    /\ historyCount' = s.historyCount
    /\ lastHistoryUpdate' = s.lastHistoryUpdate
    /\ currentPage' = s.currentPage
    /\ lastActivityTime' = s.lastActivityTime
    /\ normalBrightness' = s.normalBrightness
    /\ screenState' = s.screenState
    /\ lastDisplayUpdate' = s.lastDisplayUpdate
    /\ needsFullRedraw' = s.needsFullRedraw
    /\ graphDispValue' = s.graphDispValue
    /\ useFahrenheit' = s.useFahrenheit
    /\ screenTimeoutOption' = s.screenTimeoutOption
    /\ settingsSelection' = s.settingsSelection
    /\ brightness' = s.brightness
    /\ graph' = s.graph
    /\ drawnPage' = s.drawnPage

-----------------------------------------------------------------------------
(* Temperature conversion *)

\* (tempC * 9.0 / 5.0) + 32.0
ToFahrenheit(tempC) == (tempC * 9) \div 5 + Fix(32)

getDisplayTemp(s, tempC) == IF s.useFahrenheit THEN ToFahrenheit(tempC) ELSE tempC

-----------------------------------------------------------------------------
(* Screen timeout management *)

\* mutant: no early return for "Always On", whose duration is 0
updateScreenTimeout_NoAlwaysOn(s, now) ==
    LET timeoutDuration == screenTimeoutValues[s.screenTimeoutOption + 1]
        elapsed == now - s.lastActivityTime
    IN  IF s.screenState = "SCREEN_ON" /\ elapsed >= timeoutDuration
        THEN [s EXCEPT !.brightness = 0, !.screenState = "SCREEN_OFF"]
        ELSE s

\* mutant: the screen goes off only after more than the duration
updateScreenTimeout_Strict(s, now) ==
    LET timeoutDuration == screenTimeoutValues[s.screenTimeoutOption + 1]
        elapsed == now - s.lastActivityTime
    IN  IF timeoutDuration = 0 THEN s
        ELSE IF s.screenState = "SCREEN_ON" /\ elapsed > timeoutDuration
             THEN [s EXCEPT !.brightness = 0, !.screenState = "SCREEN_OFF"]
             ELSE s

\* mutant: the timeout also returns to the main page
updateScreenTimeout_HomeOnOff(s, now) ==
    LET timeoutDuration == screenTimeoutValues[s.screenTimeoutOption + 1]
        elapsed == now - s.lastActivityTime
    IN  IF timeoutDuration = 0 THEN s
        ELSE IF s.screenState = "SCREEN_ON" /\ elapsed >= timeoutDuration
             THEN [s EXCEPT !.brightness = 0, !.screenState = "SCREEN_OFF",
                            !.currentPage = 0]
             ELSE s

updateScreenTimeout(s, now) ==
    LET timeoutDuration == screenTimeoutValues[s.screenTimeoutOption + 1]
        elapsed == now - s.lastActivityTime
    IN  IF timeoutDuration = 0 THEN s
        ELSE IF s.screenState = "SCREEN_ON" /\ elapsed >= timeoutDuration
             THEN [s EXCEPT !.brightness = 0, !.screenState = "SCREEN_OFF"]
             ELSE s

\* mutant: waking does not ask for the full redraw
wakeScreen_NoRedraw(s, now) ==
    LET s1 == [s EXCEPT !.lastActivityTime = now]
    IN  IF s1.screenState # "SCREEN_ON"
        THEN [s1 EXCEPT !.brightness = s1.normalBrightness,
                        !.screenState = "SCREEN_ON"]
        ELSE s1

\* mutant: waking restores the brightness of startup, not the configured one
wakeScreen_StartupBrightness(s, now) ==
    LET s1 == [s EXCEPT !.lastActivityTime = now]
    IN  IF s1.screenState # "SCREEN_ON"
        THEN [s1 EXCEPT !.brightness = 80,
                        !.screenState = "SCREEN_ON",
                        !.needsFullRedraw = TRUE]
        ELSE s1

wakeScreen(s, now) ==
    LET s1 == [s EXCEPT !.lastActivityTime = now]
    IN  IF s1.screenState # "SCREEN_ON"
        THEN [s1 EXCEPT !.brightness = s1.normalBrightness,
                        !.screenState = "SCREEN_ON",
                        !.needsFullRedraw = TRUE]
        ELSE s1

-----------------------------------------------------------------------------
(* Graph page *)

\* C's % truncates toward zero: a negative dividend gives a negative result
CMod(a, b) == IF a >= 0 THEN a % b ELSE -((-a) % b)

\* mutant: the reads start at the write cursor, not historyCount before it
ReadIdx_FromCursor(s, i) ==
    CMod(s.historyIndex + i + historySize, historySize)

\* idx of the i-th sample read by the two for loops of drawGraphPageStatic
ReadIdx(s, i) ==
    CMod(s.historyIndex - s.historyCount + i + historySize, historySize)

\* val as the loops read it: history[idx], converted when convertToF
ReadVal(s, history, convertToF, i) ==
    LET val == history[ReadIdx(s, i)]
    IN  IF convertToF THEN ToFahrenheit(val) ELSE val

\* the sequence of values the loops read, i = 0 .. historyCount - 1
ReadOrdered(s, history, convertToF) ==
    [k \in 1..s.historyCount |-> ReadVal(s, history, convertToF, k - 1)]

\* one iteration of the min/max loop, mm = <<graphMin, graphMax>> before it
ScanStep(s, history, convertToF, i, mm) ==
    LET val == ReadVal(s, history, convertToF, i)
    IN  <<IF val < mm[1] THEN val ELSE mm[1], IF val > mm[2] THEN val ELSE mm[2]>>

\* the iterations i = lo .. hi - 1 of the min/max loop, in order: those below
\* the middle, and from their result the others
RECURSIVE ScanMinMax(_, _, _, _, _, _)
ScanMinMax(s, history, convertToF, lo, hi, mm) ==
    IF lo >= hi THEN mm
    ELSE IF hi = lo + 1 THEN ScanStep(s, history, convertToF, lo, mm)
    ELSE LET mid == (lo + hi) \div 2
         IN  CHOOSE after \in
                 {ScanMinMax(s, history, convertToF, mid, hi, before) :
                     before \in {ScanMinMax(s, history, convertToF, lo, mid, mm)}} :
                 TRUE

\* mutant: the 10% padding whatever the range, no minimum span
PadBounds_AlwaysTenth(mm) ==
    LET range == mm[2] - mm[1]
        padding == range \div 10
    IN  [graphMin |-> mm[1] - padding, graphMax |-> mm[2] + padding,
         range |-> (mm[2] + padding) - (mm[1] - padding)]

\* the padding of the scanned <<graphMin, graphMax>>
PadBounds(mm) ==
    LET range == mm[2] - mm[1]
    IN  IF range < Fix(2)
        THEN LET mid == (mm[2] + mm[1]) \div 2
             IN  [graphMin |-> mid - Fix(1), graphMax |-> mid + Fix(1),
                  range |-> Fix(2)]
        ELSE LET padding == range \div 10
             IN  [graphMin |-> mm[1] - padding, graphMax |-> mm[2] + padding,
                  range |-> (mm[2] + padding) - (mm[1] - padding)]

\* the scaling of drawGraphPageStatic when historyCount > 1
GraphBounds(s, history, convertToF) ==
    LET firstIdx == CMod(s.historyIndex - s.historyCount + historySize, historySize)
        firstVal == IF convertToF THEN ToFahrenheit(history[firstIdx])
                    ELSE history[firstIdx]
    IN  PadBounds(ScanMinMax(s, history, convertToF, 0, s.historyCount,
                             <<firstVal, firstVal>>))

NoGraph ==
    [page |-> 0, shown |-> "none", graphMin |-> 0, graphMax |-> 0, range |-> 0,
     points |-> <<>>]

drawGraphPageStatic(s, page, history, convertToF) ==
    LET g == IF s.historyCount > 1
             THEN LET b == GraphBounds(s, history, convertToF)
                  IN  [page |-> page, shown |-> "plot",
                       graphMin |-> b.graphMin, graphMax |-> b.graphMax,
                       range |-> b.range,
                       points |-> ReadOrdered(s, history, convertToF)]
             ELSE [page |-> page, shown |-> "collecting", graphMin |-> 0,
                   graphMax |-> 0, range |-> 0, points |-> <<>>]
    IN  [s EXCEPT !.graph = g, !.graphDispValue = Unset]

\* mutant: a difference of exactly 0.05 is not drawn either
Draws_AboveOnly(value, dispValue) ==
    LET d == value - dispValue
        diff == IF d < 0 THEN -d ELSE d
    IN  ~(diff <= 5)

\* whether the update goes past "if (diff < 0.05) return;": 0.05 is 5 hundredths
Draws(value, dispValue) ==
    LET d == value - dispValue
        diff == IF d < 0 THEN -d ELSE d
    IN  ~(diff < 5)

\* the new value of the cache graphDispValue / dispValue
Redrawn(value, dispValue) ==
    IF Draws(value, dispValue) THEN value ELSE dispValue

\* the set holding field if its update draws, and nothing otherwise
Drawn(field, value, dispValue) ==
    IF Draws(value, dispValue) THEN {field} ELSE {}

updateGraphValue(s, value) ==
    [s EXCEPT !.graphDispValue = Redrawn(value, @),
              !.drawn = @ \cup Drawn("graph", value, s.graphDispValue)]

-----------------------------------------------------------------------------
(* Main page *)

drawMainPageStatic(s) ==
    [s EXCEPT !.dispTemp = Unset, !.dispHumidity = Unset, !.dispPressure = Unset]

\* the three calls of updateSingleBoxValue, each on its own cache
updateMainPageValues(s) ==
    [s EXCEPT !.dispTemp = Redrawn(getDisplayTemp(s, s.temperature), @),
              !.dispHumidity = Redrawn(s.humidity, @),
              !.dispPressure = Redrawn(s.pressure, @),
              !.drawn = @ \cup Drawn("dispTemp", getDisplayTemp(s, s.temperature),
                                     s.dispTemp)
                          \cup Drawn("dispHumidity", s.humidity, s.dispHumidity)
                          \cup Drawn("dispPressure", s.pressure, s.dispPressure)]

-----------------------------------------------------------------------------
(* Keyboard handling.  Keys are character codes: '`' 96, '~' 126, ESC 27,    *)
(* ';' 59, '.' 46, ',' 44, '/' 47, letters 'A'..'Z' 65..90, 'a'..'z' 97..122. *)

\* ';' = Up
selectUp(s) ==
    LET sel == s.settingsSelection - 1
    IN  [s EXCEPT !.settingsSelection = IF sel < 0 THEN 0 ELSE sel,
                  !.needsFullRedraw = TRUE]

\* mutant: the cursor wraps from the last setting to the first
selectDown_Wraps(s) ==
    [s EXCEPT !.settingsSelection = (s.settingsSelection + 1) % 3,
              !.needsFullRedraw = TRUE]

\* '.' = Down
selectDown(s) ==
    LET sel == s.settingsSelection + 1
    IN  [s EXCEPT !.settingsSelection = IF sel > 2 THEN 2 ELSE sel,
                  !.needsFullRedraw = TRUE]

\* mutant: the brightness is floored at 0, not at 20
changeLeft_FloorZero(s) ==
    CASE s.settingsSelection = 0 ->
           LET nb == s.normalBrightness - 20
               nb2 == IF nb < 0 THEN 0 ELSE nb
           IN  [s EXCEPT !.normalBrightness = nb2, !.brightness = nb2,
                         !.needsFullRedraw = TRUE]
      [] s.settingsSelection = 1 ->
           [s EXCEPT !.useFahrenheit = FALSE, !.dispTemp = Unset,
                     !.needsFullRedraw = TRUE]
      [] s.settingsSelection = 2 ->
           LET opt == s.screenTimeoutOption - 1
           IN  [s EXCEPT !.screenTimeoutOption = IF opt < 0 THEN 0 ELSE opt,
                         !.needsFullRedraw = TRUE]
      [] OTHER -> s

\* ',' = Left (decrease / select C)
changeLeft(s) ==
    CASE s.settingsSelection = 0 ->
           LET nb == s.normalBrightness - 20
               nb2 == IF nb < 20 THEN 20 ELSE nb
           IN  [s EXCEPT !.normalBrightness = nb2, !.brightness = nb2,
                         !.needsFullRedraw = TRUE]
      [] s.settingsSelection = 1 ->
           [s EXCEPT !.useFahrenheit = FALSE, !.dispTemp = Unset,
                     !.needsFullRedraw = TRUE]
      [] s.settingsSelection = 2 ->
           LET opt == s.screenTimeoutOption - 1
           IN  [s EXCEPT !.screenTimeoutOption = IF opt < 0 THEN 0 ELSE opt,
                         !.needsFullRedraw = TRUE]
      [] OTHER -> s

\* mutant: selecting Fahrenheit leaves the temperature cache alone
changeRight_KeepsCache(s) ==
    CASE s.settingsSelection = 0 ->
           LET nb == s.normalBrightness + 20
               nb2 == IF nb > 100 THEN 100 ELSE nb
           IN  [s EXCEPT !.normalBrightness = nb2, !.brightness = nb2,
                         !.needsFullRedraw = TRUE]
      [] s.settingsSelection = 1 ->
           [s EXCEPT !.useFahrenheit = TRUE, !.needsFullRedraw = TRUE]
      [] s.settingsSelection = 2 ->
           LET opt == s.screenTimeoutOption + 1
           IN  [s EXCEPT !.screenTimeoutOption = IF opt > 2 THEN 2 ELSE opt,
                         !.needsFullRedraw = TRUE]
      [] OTHER -> s

\* '/' = Right (increase / select F)
changeRight(s) ==
    CASE s.settingsSelection = 0 ->
           LET nb == s.normalBrightness + 20
               nb2 == IF nb > 100 THEN 100 ELSE nb
           IN  [s EXCEPT !.normalBrightness = nb2, !.brightness = nb2,
                         !.needsFullRedraw = TRUE]
      [] s.settingsSelection = 1 ->
           [s EXCEPT !.useFahrenheit = TRUE, !.dispTemp = Unset,
                     !.needsFullRedraw = TRUE]
      [] s.settingsSelection = 2 ->
           LET opt == s.screenTimeoutOption + 1
           IN  [s EXCEPT !.screenTimeoutOption = IF opt > 2 THEN 2 ELSE opt,
                         !.needsFullRedraw = TRUE]
      [] OTHER -> s

\* mutant: the page letters are obeyed on every page
handleKey_LettersAnywhere(s, c) ==
    LET upperC == IF c >= 97 /\ c <= 122 THEN c - 32 ELSE c
    IN  IF c = 96 \/ c = 126 \/ c = 27
        THEN IF s.currentPage # 0
             THEN [s EXCEPT !.currentPage = 0, !.needsFullRedraw = TRUE]
             ELSE s
        ELSE IF upperC \in {84, 72, 80, 83}
        THEN CASE upperC = 84 -> [s EXCEPT !.currentPage = 1, !.needsFullRedraw = TRUE]
               [] upperC = 72 -> [s EXCEPT !.currentPage = 2, !.needsFullRedraw = TRUE]
               [] upperC = 80 -> [s EXCEPT !.currentPage = 3, !.needsFullRedraw = TRUE]
               [] OTHER -> [s EXCEPT !.currentPage = 4, !.needsFullRedraw = TRUE]
        ELSE IF s.currentPage = 4
        THEN CASE c = 59 -> selectUp(s)
               [] c = 46 -> selectDown(s)
               [] c = 44 -> changeLeft(s)
               [] c = 47 -> changeRight(s)
               [] OTHER -> s
        ELSE s

\* mutant: an escape key asks for the full redraw on the main page too
handleKey_EscapeAlwaysRedraws(s, c) ==
    LET upperC == IF c >= 97 /\ c <= 122 THEN c - 32 ELSE c
    IN  IF c = 96 \/ c = 126 \/ c = 27
        THEN [s EXCEPT !.currentPage = 0, !.needsFullRedraw = TRUE]
        ELSE IF s.currentPage = 0
        THEN CASE upperC = 84 -> [s EXCEPT !.currentPage = 1, !.needsFullRedraw = TRUE]
               [] upperC = 72 -> [s EXCEPT !.currentPage = 2, !.needsFullRedraw = TRUE]
               [] upperC = 80 -> [s EXCEPT !.currentPage = 3, !.needsFullRedraw = TRUE]
               [] upperC = 83 -> [s EXCEPT !.currentPage = 4, !.needsFullRedraw = TRUE]
               [] OTHER -> s
        ELSE IF s.currentPage = 4
        THEN CASE c = 59 -> selectUp(s)
               [] c = 46 -> selectDown(s)
               [] c = 44 -> changeLeft(s)
               [] c = 47 -> changeRight(s)
               [] OTHER -> s
        ELSE s

\* the body of "for (auto key : status.word)" for one key c
handleKey(s, c) ==
    LET upperC == IF c >= 97 /\ c <= 122 THEN c - 32 ELSE c
    IN  IF c = 96 \/ c = 126 \/ c = 27
        THEN IF s.currentPage # 0
             THEN [s EXCEPT !.currentPage = 0, !.needsFullRedraw = TRUE]
             ELSE s
        ELSE IF s.currentPage = 0
        THEN CASE upperC = 84 -> [s EXCEPT !.currentPage = 1, !.needsFullRedraw = TRUE]
               [] upperC = 72 -> [s EXCEPT !.currentPage = 2, !.needsFullRedraw = TRUE]
               [] upperC = 80 -> [s EXCEPT !.currentPage = 3, !.needsFullRedraw = TRUE]
               [] upperC = 83 -> [s EXCEPT !.currentPage = 4, !.needsFullRedraw = TRUE]
               [] OTHER -> s
        ELSE IF s.currentPage = 4
        THEN CASE c = 59 -> selectUp(s)
               [] c = 46 -> selectDown(s)
               [] c = 44 -> changeLeft(s)
               [] c = 47 -> changeRight(s)
               [] OTHER -> s
        ELSE s

\* the for loop over status.word, in order
RECURSIVE handleKeys(_, _)
handleKeys(s, word) ==
    IF word = <<>> THEN s
    ELSE handleKeys(handleKey(s, Head(word)), Tail(word))

\* mutant: no return after waking, the keys are dispatched as well
handleKeyboard_WakeAndDispatch(s, kb, now) ==
    IF kb.isChange /\ kb.isPressed
    THEN handleKeys(wakeScreen(s, now), kb.word)
    ELSE s

\* kb = [isChange, isPressed, word]: what the keyboard reports after update()
\* mutant: with the screen Off the keys are obeyed and the screen stays Off
handleKeyboard_DispatchWhileOff(s, kb, now) ==
    IF kb.isChange /\ kb.isPressed
    THEN IF s.screenState # "SCREEN_ON"
         THEN handleKeys([s EXCEPT !.lastActivityTime = now], kb.word)
         ELSE handleKeys(wakeScreen(s, now), kb.word)
    ELSE s

handleKeyboard(s, kb, now) ==
    IF kb.isChange /\ kb.isPressed
    THEN IF s.screenState # "SCREEN_ON"
         THEN wakeScreen(s, now)
         ELSE handleKeys(wakeScreen(s, now), kb.word)
    ELSE s

-----------------------------------------------------------------------------
(* Data collection *)

\* rd = [t, h, p]: sht30.cTemp, sht30.humidity, qmp6988.pressure / 100.0
readSensors(s, rd) ==
    [s EXCEPT !.temperature = rd.t, !.humidity = rd.h, !.pressure = rd.p]

\* mutant: the count is not capped at the buffer size
updateHistory_CountUncapped(s, now) ==
    IF now - s.lastHistoryUpdate >= historyInterval \/ s.historyCount = 0
    THEN [s EXCEPT !.stored = TRUE,
                   !.lastHistoryUpdate = now,
                   !.tempHistory[s.historyIndex] = s.temperature,
                   !.humidityHistory[s.historyIndex] = s.humidity,
                   !.pressureHistory[s.historyIndex] = s.pressure,
                   !.historyIndex = (s.historyIndex + 1) % historySize,
                   !.historyCount = @ + 1]
    ELSE s

\* mutant: the cursor advances before the sample is written
updateHistory_WriteAfterAdvance(s, now) ==
    IF now - s.lastHistoryUpdate >= historyInterval \/ s.historyCount = 0
    THEN LET idx == (s.historyIndex + 1) % historySize
         IN  [s EXCEPT !.stored = TRUE,
                       !.lastHistoryUpdate = now,
                       !.tempHistory[idx] = s.temperature,
                       !.humidityHistory[idx] = s.humidity,
                       !.pressureHistory[idx] = s.pressure,
                       !.historyIndex = idx,
                       !.historyCount = IF @ < historySize THEN @ + 1 ELSE @]
    ELSE s

updateHistory(s, now) ==
    IF now - s.lastHistoryUpdate >= historyInterval \/ s.historyCount = 0
    THEN [s EXCEPT !.stored = TRUE,
                   !.lastHistoryUpdate = now,
                   !.tempHistory[s.historyIndex] = s.temperature,
                   !.humidityHistory[s.historyIndex] = s.humidity,
                   !.pressureHistory[s.historyIndex] = s.pressure,
                   !.historyIndex = (s.historyIndex + 1) % historySize,
                   !.historyCount = IF @ < historySize THEN @ + 1 ELSE @]
    ELSE s

-----------------------------------------------------------------------------
(* Main loop *)

\* the branch "if (needsFullRedraw)" of loop()
fullRedraw(s, now) ==
    LET s1 == [s EXCEPT !.needsFullRedraw = FALSE, !.lastDisplayUpdate = now,
                        !.redraw = "full", !.drawnPage = s.currentPage]
        temp == getDisplayTemp(s, s.temperature)
    IN  CASE s1.currentPage = 0 -> updateMainPageValues(drawMainPageStatic(s1))
          [] s1.currentPage = 1 ->
               updateGraphValue(
                   drawGraphPageStatic(s1, 1, s1.tempHistory, s1.useFahrenheit),
                   temp)
          [] s1.currentPage = 2 ->
               updateGraphValue(
                   drawGraphPageStatic(s1, 2, s1.humidityHistory, FALSE),
                   s1.humidity)
          [] s1.currentPage = 3 ->
               updateGraphValue(
                   drawGraphPageStatic(s1, 3, s1.pressureHistory, FALSE),
                   s1.pressure)
          [] OTHER -> s1

\* mutant: the 1 Hz update of a graph page plots the graph again
incrementalRedraw_Replots(s, now) ==
    LET s1 == [s EXCEPT !.lastDisplayUpdate = now, !.redraw = "incremental"]
        temp == getDisplayTemp(s, s.temperature)
        cached == s.graphDispValue
    IN  CASE s1.currentPage = 0 -> updateMainPageValues(s1)
          [] s1.currentPage = 1 ->
               updateGraphValue(
                   [drawGraphPageStatic(s1, 1, s1.tempHistory, s1.useFahrenheit)
                       EXCEPT !.graphDispValue = cached],
                   temp)
          [] s1.currentPage = 2 ->
               updateGraphValue(
                   [drawGraphPageStatic(s1, 2, s1.humidityHistory, FALSE)
                       EXCEPT !.graphDispValue = cached],
                   s1.humidity)
          [] s1.currentPage = 3 ->
               updateGraphValue(
                   [drawGraphPageStatic(s1, 3, s1.pressureHistory, FALSE)
                       EXCEPT !.graphDispValue = cached],
                   s1.pressure)
          [] OTHER -> s1

\* the branch "else if (shouldUpdateDisplay)" of loop()
incrementalRedraw(s, now) ==
    LET s1 == [s EXCEPT !.lastDisplayUpdate = now, !.redraw = "incremental"]
        temp == getDisplayTemp(s, s.temperature)
    IN  CASE s1.currentPage = 0 -> updateMainPageValues(s1)
          [] s1.currentPage = 1 -> updateGraphValue(s1, temp)
          [] s1.currentPage = 2 -> updateGraphValue(s1, s1.humidity)
          [] s1.currentPage = 3 -> updateGraphValue(s1, s1.pressure)
          [] OTHER -> s1

\* mutant: the redraw decision does not look at the screen state
updateDisplay_WhileOff(s, now) ==
    IF s.needsFullRedraw THEN fullRedraw(s, now)
    ELSE IF now - s.lastDisplayUpdate >= displayInterval
         THEN incrementalRedraw(s, now)
         ELSE s

\* mutant: the full redraw waits for the 1 Hz display interval as well
updateDisplay_FullAtInterval(s, now) ==
    LET shouldUpdateDisplay == now - s.lastDisplayUpdate >= displayInterval
    IN  IF s.screenState # "SCREEN_OFF" /\ shouldUpdateDisplay
        THEN IF s.needsFullRedraw THEN fullRedraw(s, now)
             ELSE incrementalRedraw(s, now)
        ELSE s

\* mutant: the incremental redraw needs more than the display interval
updateDisplay_AfterInterval(s, now) ==
    LET shouldUpdateDisplay == now - s.lastDisplayUpdate > displayInterval
    IN  IF s.screenState # "SCREEN_OFF"
        THEN IF s.needsFullRedraw THEN fullRedraw(s, now)
             ELSE IF shouldUpdateDisplay THEN incrementalRedraw(s, now)
             ELSE s
        ELSE s

\* the display part of loop(): the full redraw or the 1 Hz incremental one
updateDisplay(s, now) ==
    LET shouldUpdateDisplay == now - s.lastDisplayUpdate >= displayInterval
    IN  IF s.screenState # "SCREEN_OFF"
        THEN IF s.needsFullRedraw THEN fullRedraw(s, now)
             ELSE IF shouldUpdateDisplay THEN incrementalRedraw(s, now)
             ELSE s
        ELSE s

\* mutant: the timeout is evaluated before the keyboard is read
loopBody_TimeoutFirst(s, kb, rd, now) ==
    updateDisplay(
        updateHistory(
            readSensors(
                handleKeyboard(updateScreenTimeout(s, now), kb, now), rd), now), now)

\* mutant: the sensors are read and the history updated only with the screen On
loopBody_SensorsWhenOn(s, kb, rd, now) ==
    LET s1 == updateScreenTimeout(handleKeyboard(s, kb, now), now)
    IN  IF s1.screenState = "SCREEN_ON"
        THEN updateDisplay(updateHistory(readSensors(s1, rd), now), now)
        ELSE s1

\* the body of loop() at time now: keyboard kb = [isChange, isPressed, word],
\* sensor reading rd = [t, h, p]
loopBody(s, kb, rd, now) ==
    updateDisplay(
        updateHistory(
            readSensors(
                updateScreenTimeout(handleKeyboard(s, kb, now), now), rd), now), now)

\* mutant: setup() stores no first history point
setup_Empty(rd) ==
    [temperature |-> rd.t, humidity |-> rd.h, pressure |-> rd.p,
     dispTemp |-> Unset, dispHumidity |-> Unset, dispPressure |-> Unset,
     tempHistory |-> [i \in 0..(historySize - 1) |-> 0],
     humidityHistory |-> [i \in 0..(historySize - 1) |-> 0],
     pressureHistory |-> [i \in 0..(historySize - 1) |-> 0],
     historyIndex |-> 0, historyCount |-> 0, lastHistoryUpdate |-> 0,
     currentPage |-> 0, lastActivityTime |-> setupDelays,
     normalBrightness |-> 80, screenState |-> "SCREEN_ON",
     lastDisplayUpdate |-> setupDelays,
     needsFullRedraw |-> TRUE, graphDispValue |-> Unset,
     useFahrenheit |-> FALSE, screenTimeoutOption |-> 2,
     settingsSelection |-> 0,
     brightness |-> 80, graph |-> NoGraph, drawnPage |-> -1,
     redraw |-> "none", stored |-> FALSE, drawn |-> {}]

\* what setup() leaves: the first reading rd stored as the first history point
setup(rd) ==
    [temperature |-> rd.t, humidity |-> rd.h, pressure |-> rd.p,
     dispTemp |-> Unset, dispHumidity |-> Unset, dispPressure |-> Unset,
     tempHistory |-> [i \in 0..(historySize - 1) |-> IF i = 0 THEN rd.t ELSE 0],
     humidityHistory |-> [i \in 0..(historySize - 1) |-> IF i = 0 THEN rd.h ELSE 0],
     pressureHistory |-> [i \in 0..(historySize - 1) |-> IF i = 0 THEN rd.p ELSE 0],
     historyIndex |-> 1, historyCount |-> 1, lastHistoryUpdate |-> 0,
     currentPage |-> 0, lastActivityTime |-> setupDelays,
     normalBrightness |-> 80, screenState |-> "SCREEN_ON",
     lastDisplayUpdate |-> setupDelays,
     needsFullRedraw |-> TRUE, graphDispValue |-> Unset,
     useFahrenheit |-> FALSE, screenTimeoutOption |-> 2,
     settingsSelection |-> 0,
     brightness |-> 80, graph |-> NoGraph, drawnPage |-> -1,
     redraw |-> "none", stored |-> TRUE, drawn |-> {}]

\* the variables hold the program state s at time t, after the samples log
InState(s, t, log, e) ==
    /\ temperature = s.temperature /\ humidity = s.humidity
    /\ pressure = s.pressure
    /\ dispTemp = s.dispTemp /\ dispHumidity = s.dispHumidity
    /\ dispPressure = s.dispPressure
    /\ tempHistory = s.tempHistory /\ humidityHistory = s.humidityHistory
    /\ pressureHistory = s.pressureHistory
    /\ historyIndex = s.historyIndex /\ historyCount = s.historyCount
    /\ lastHistoryUpdate = s.lastHistoryUpdate
    /\ currentPage = s.currentPage /\ lastActivityTime = s.lastActivityTime
    /\ normalBrightness = s.normalBrightness /\ screenState = s.screenState
    /\ lastDisplayUpdate = s.lastDisplayUpdate
    /\ needsFullRedraw = s.needsFullRedraw
    /\ graphDispValue = s.graphDispValue
    /\ useFahrenheit = s.useFahrenheit
    /\ screenTimeoutOption = s.screenTimeoutOption
    /\ settingsSelection = s.settingsSelection
    /\ brightness = s.brightness /\ graph = s.graph
    /\ drawnPage = s.drawnPage
    /\ clock = t
    /\ appended = log
    /\ ev = e

KeyKind(kb) ==
    IF ~kb.isChange THEN "none" ELSE IF kb.isPressed THEN "press" ELSE "release"

\* the state when setup() returns, the clock at the sum of its delays
Setup(rd) ==
    InState(setup(rd), setupDelays, <<rd>>,
            [key |-> "none", wasOff |-> FALSE, due |-> FALSE, redraw |-> "none",
             stored |-> TRUE, drawn |-> {}])

\* when the iteration begins the selected timeout has already run out
TimeoutDue ==
    /\ screenTimeoutOption # 2
    /\ clock - lastActivityTime >= screenTimeoutValues[screenTimeoutOption + 1]

\* one iteration of loop(): keyboard kb, reading rd, and dt ms until the next
Loop(kb, rd, dt) ==
    /\ clock' = clock + dt
    /\ \E s \in {loopBody(State, kb, rd, clock)} :
        /\ Commit(s)
        /\ appended' = IF s.stored THEN Append(appended, rd) ELSE appended
        /\ ev' = [key |-> KeyKind(kb), wasOff |-> screenState = "SCREEN_OFF",
                  due |-> TimeoutDue, redraw |-> s.redraw, stored |-> s.stored,
                  drawn |-> s.drawn]

-----------------------------------------------------------------------------
(* The main specification: the loop under key presses and idle time *)

\* 20.0 C, 45 %, 1013 hPa
\* the reading the globals hold
Current == [t |-> temperature, h |-> humidity, p |-> pressure]

RoomReading == [t |-> Fix(20), h |-> Fix(45), p |-> Fix(1013)]

MainReadings == {RoomReading}

\* an iteration lasts the 50 ms delay, or an idle stretch as long as a timeout
Deltas == {loopDelay, screenTimeoutValues[1], screenTimeoutValues[2]}

\* the clock values a run may reach: at most MaxLong stretches of 10 s and at
\* most MaxShort short iterations beyond a whole number of them
TimeOK(t) ==
    /\ t <= setupDelays + MaxLong * screenTimeoutValues[1] + MaxShort * loopDelay
    /\ (t - setupDelays) % screenTimeoutValues[1] <= MaxShort * loopDelay

\* the keys handleKeyboard tests ('t' and 's' in both cases, 'h' and 'p' in
\* one) and 'x', which it ignores
Keys == {96, 27, 84, 116, 104, 112, 83, 115, 59, 46, 44, 47, 120}

\* status.word of a poll: no printable key, one key, or two keys in order
KeyWords ==
    {<<>>} \cup {<<c>> : c \in Keys}
           \cup {<<115, 46>>, <<115, 44>>, <<46, 44>>, <<44, 44>>, <<104, 96>>}

Pressed(w) == [isChange |-> TRUE, isPressed |-> TRUE, word |-> w]

Released == [isChange |-> TRUE, isPressed |-> FALSE, word |-> <<>>]

Idle(held) == [isChange |-> FALSE, isPressed |-> held, word |-> <<>>]

Init == script = <<>> /\ \E rd \in MainReadings : Setup(rd)

LoopIdle ==
    \E held \in BOOLEAN, rd \in MainReadings, dt \in Deltas :
        TimeOK(clock + dt) /\ Loop(Idle(held), rd, dt) /\ UNCHANGED script

LoopKeyRelease ==
    \E rd \in MainReadings, dt \in Deltas :
        TimeOK(clock + dt) /\ Loop(Released, rd, dt) /\ UNCHANGED script

\* an iteration in which the keyboard reports the keys of w newly pressed
PressWord(w) ==
    \E rd \in MainReadings, dt \in Deltas :
        TimeOK(clock + dt) /\ Loop(Pressed(w), rd, dt) /\ UNCHANGED script

LoopKeyPress == \E w \in KeyWords : PressWord(w)

Next == LoopIdle \/ LoopKeyRelease \/ LoopKeyPress

Spec == Init /\ [][Next]_vars

-----------------------------------------------------------------------------
(* C2 .. C8, under the main specification.  In a step of it the unprimed     *)
(* variables are the state when an iteration of loop() begins, clock the     *)
(* value millis() returns throughout it, and the primed variables the state  *)
(* it leaves; handleKeyboard alone writes the settings and lastActivityTime, *)
(* so their primed values are the ones updateScreenTimeout evaluates.        *)

\* C2: while the timeout option is Always-On (2), before or after the keys of
\* the iteration, a screen that is On is never turned Off.
C2_AlwaysOnNeverTurnsOff ==
    [][(screenState = "SCREEN_ON"
            /\ (screenTimeoutOption = 2 \/ screenTimeoutOption' = 2))
        => screenState' = "SCREEN_ON"]_vars

\* Always-On, no key for 40 s or more (so 10 s or more at the last evaluation)
C2_Witness ==
    /\ screenState = "SCREEN_ON" /\ screenTimeoutOption = 2
    /\ ev.key = "none"
    /\ clock - lastActivityTime >= screenTimeoutValues[1] + screenTimeoutValues[2]

\* C3: with the option 10 s or 30 s and the screen On, the iteration turns the
\* screen Off exactly when now - lastActivity >= the selected threshold at the
\* evaluation, and then sets the backlight to 0; lastActivity is the time of
\* startup until a key press and then of the latest key press, whatever the
\* keys; once Off the screen stays Off while no key is pressed.
C3_TimeoutTurnsOff ==
    /\ lastActivityTime = setupDelays
    /\ [][/\ (screenState = "SCREEN_ON" /\ screenTimeoutOption' \in {0, 1}) =>
                (screenState' = "SCREEN_OFF"
                    <=> clock - lastActivityTime'
                            >= screenTimeoutValues[screenTimeoutOption' + 1])
          /\ (screenState = "SCREEN_ON" /\ screenState' = "SCREEN_OFF") =>
                (brightness' = 0 /\ screenTimeoutOption' \in {0, 1})
          /\ ev'.key = "press" => lastActivityTime' = clock
          /\ ev'.key # "press" => lastActivityTime' = lastActivityTime
          /\ (screenState = "SCREEN_OFF" /\ ev'.key # "press") =>
                screenState' = "SCREEN_OFF"]_vars

\* the 10 s timeout fired in the last iteration, exactly 10000 ms after a key
\* press made later than startup
C3_Witness ==
    /\ screenState = "SCREEN_OFF" /\ ~ev.wasOff /\ ev.key = "none"
    /\ screenTimeoutOption = 0 /\ brightness = 0
    /\ lastActivityTime > setupDelays
    /\ \E dt \in Deltas : clock - dt - lastActivityTime = screenTimeoutValues[1]

\* C4: an iteration that begins with the screen Off leaves it Off, the
\* backlight untouched, unless a key press arrives; a key press turns it On,
\* sets the backlight to the configured normal brightness and gets the full
\* redraw it schedules.
C4_WakeOnlyOnKeyPress ==
    [][screenState = "SCREEN_OFF" =>
         IF ev'.key = "press"
         THEN /\ screenState' = "SCREEN_ON"
              /\ normalBrightness' = normalBrightness
              /\ brightness' = normalBrightness
              /\ ev'.redraw = "full" /\ lastDisplayUpdate' = clock
         ELSE /\ screenState' = "SCREEN_OFF"
              /\ brightness' = brightness]_vars

\* woken by a key press, the backlight back at a brightness set in Settings
C4_Witness ==
    /\ ev.wasOff /\ ev.key = "press" /\ screenState = "SCREEN_ON"
    /\ normalBrightness # 80 /\ brightness = normalBrightness
    /\ ev.redraw = "full"

\* C5: a key press received while the screen is Off changes none of the page,
\* the brightness level, the unit, the timeout option and the settings cursor,
\* whatever the keys; 'h' pressed on Main while the screen is On selects the
\* humidity graph (no step from Main that ends on another page is a step of
\* 'h').
C5_WakingKeyDiscarded ==
    [][/\ (screenState = "SCREEN_OFF" /\ ev'.key = "press") =>
             UNCHANGED <<currentPage, normalBrightness, useFahrenheit,
                         screenTimeoutOption, settingsSelection>>
       /\ (screenState = "SCREEN_ON" /\ currentPage = 0 /\ ev'.key = "press"
               /\ currentPage' # 2) => ~PressWord(<<104>>)]_vars

\* woken on Main by a key press that, with the screen On, would leave Main
C5_Witness ==
    /\ ev.wasOff /\ ev.key = "press" /\ screenState = "SCREEN_ON"
    /\ currentPage = 0

\* C6: an iteration that has the screen Off at the redraw decision draws
\* nothing (no full or incremental redraw, no graph, no display cache or
\* redraw time written) and leaves the backlight at 0; from Off the backlight
\* becomes non-zero only in an iteration with a key press.
C6_NoDrawingWhileOff ==
    [][/\ screenState' = "SCREEN_OFF" =>
             /\ ev'.redraw = "none"
             /\ UNCHANGED <<graph, graphDispValue, dispTemp, dispHumidity,
                            dispPressure, lastDisplayUpdate>>
             /\ brightness' = 0
       /\ (screenState = "SCREEN_OFF" /\ brightness' # 0) =>
             ev'.key = "press"]_vars

\* an iteration that began and ended Off although a redraw was long overdue
C6_Witness ==
    /\ screenState = "SCREEN_OFF" /\ ev.wasOff /\ ev.redraw = "none"
    /\ clock - lastDisplayUpdate >= displayInterval + screenTimeoutValues[2]

Lower(b) == IF b - 20 < 20 THEN 20 ELSE b - 20

Raise(b) == IF b + 20 > 100 THEN 100 ELSE b + 20

\* the words of KeyWords without ',' and '/'
NoBrightnessKey == {w \in KeyWords : \A i \in 1..Len(w) : w[i] \notin {44, 47}}

\* C7: the brightness is always one of 20, 40, 60, 80, 100; on Settings with
\* the cursor on the brightness ',' lowers it by 20 and '/' raises it by 20,
\* saturating at 20 and 100 (',' twice lowers it twice); no iteration without
\* a key press, no key press while Off, none away from the brightness row of
\* Settings and no other key changes it.  (Each effect of a key is stated as
\* its contrapositive: a step with another outcome is not a step of that key.)
C7_BrightnessSteps ==
    /\ [](normalBrightness \in {20, 40, 60, 80, 100})
    /\ [][/\ (ev'.key = "press" /\ screenState = "SCREEN_ON" /\ currentPage = 4
                  /\ settingsSelection = 0) =>
                /\ normalBrightness' # Lower(normalBrightness) =>
                      ~PressWord(<<44>>)
                /\ normalBrightness' # Raise(normalBrightness) =>
                      ~PressWord(<<47>>)
                /\ normalBrightness' # Lower(Lower(normalBrightness)) =>
                      ~PressWord(<<44, 44>>)
          /\ normalBrightness' # normalBrightness =>
                /\ ev'.key = "press" /\ screenState = "SCREEN_ON"
                /\ currentPage' = 4 /\ settingsSelection' = 0
                /\ settingsSelection = 0
                /\ \A w \in NoBrightnessKey : ~PressWord(w)]_vars

\* the brightness lowered from 80 to its floor on the Settings page
C7_Witness ==
    /\ normalBrightness = 20 /\ brightness = 20
    /\ currentPage = 4 /\ settingsSelection = 0 /\ ev.key = "press"

Less(n) == IF n = 0 THEN 0 ELSE n - 1

More(n) == IF n = 2 THEN 2 ELSE n + 1

\* C8: the settings cursor and the timeout option always hold 0, 1 or 2; on
\* Settings ';' and '.' move the cursor one up and one down, and with the
\* cursor on the timeout ',' and '/' move the option one down and one up, all
\* saturating at 0 and 2 without wrapping.  (Each effect of a key is stated as
\* its contrapositive: a step with another outcome is not a step of that key.)
C8_CursorAndOptionClamped ==
    /\ [](settingsSelection \in {0, 1, 2} /\ screenTimeoutOption \in {0, 1, 2})
    /\ [][(ev'.key = "press" /\ screenState = "SCREEN_ON" /\ currentPage = 4) =>
             /\ ~(settingsSelection' = Less(settingsSelection)
                     /\ screenTimeoutOption' = screenTimeoutOption)
                   => ~PressWord(<<59>>)
             /\ ~(settingsSelection' = More(settingsSelection)
                     /\ screenTimeoutOption' = screenTimeoutOption)
                   => ~PressWord(<<46>>)
             /\ (settingsSelection = 2
                     /\ ~(screenTimeoutOption' = Less(screenTimeoutOption)
                            /\ settingsSelection' = 2))
                   => ~PressWord(<<44>>)
             /\ (settingsSelection = 2
                     /\ ~(screenTimeoutOption' = More(screenTimeoutOption)
                            /\ settingsSelection' = 2))
                   => ~PressWord(<<47>>)]_vars

\* the cursor on the last setting and the option on its first value, 10 s
C8_Witness ==
    /\ settingsSelection = 2 /\ screenTimeoutOption = 0
    /\ currentPage = 4 /\ ev.key = "press"

-----------------------------------------------------------------------------
(* C12 .. C15 and C17, under the main specification *)

\* the temperature in the selected unit
ShownTemp == getDisplayTemp([useFahrenheit |-> useFahrenheit], temperature)

\* the page a letter key opens from the main page
PageOf(c) ==
    CASE c \in {84, 116} -> 1
      [] c \in {72, 104} -> 2
      [] c \in {80, 112} -> 3
      [] OTHER -> 4

PageLetters == {84, 116, 72, 104, 80, 112, 83, 115}

EscapeKeys == {96, 126, 27}

\* the state handleKeyboard leaves when the next iteration finds w pressed
AfterKeys(w) == handleKeyboard(State, Pressed(w), clock)

\* the state the whole iteration leaves when it finds w pressed
AfterPress(w) == loopBody(State, Pressed(w), Current, clock)

\* C12: with the screen On and the main page shown, pressing T, H, P or S in
\* either case opens page 1, 2, 3 or 4 and requests the full redraw, which the
\* iteration then makes; on any other page these letters leave the page
\* unchanged
C12_LettersOpenPagesFromMain ==
    screenState = "SCREEN_ON" =>
        \A c \in PageLetters :
            IF currentPage = 0
            THEN /\ AfterKeys(<<c>>).currentPage = PageOf(c)
                 /\ AfterKeys(<<c>>).needsFullRedraw
                 /\ AfterPress(<<c>>).currentPage = PageOf(c)
                 /\ AfterPress(<<c>>).redraw = "full"
                 /\ AfterPress(<<c>>).drawnPage = PageOf(c)
            ELSE /\ AfterKeys(<<c>>).currentPage = currentPage
                 /\ AfterPress(<<c>>).currentPage = currentPage

\* the pressure page opened and drawn in full by a key press in the first
\* iteration, on the main page with the screen On
C12_Witness ==
    /\ ev.key = "press" /\ ~ev.wasOff
    /\ clock = setupDelays + loopDelay
    /\ currentPage = 3 /\ ev.redraw = "full" /\ drawnPage = 3

\* C13: with the screen On, an escape key pressed on a page other than the
\* main page opens the main page and requests the full redraw, which the
\* iteration then makes; pressed on the main page it changes neither the page
\* nor the request for a full redraw
C13_EscapeReturnsToMain ==
    screenState = "SCREEN_ON" =>
        \A c \in EscapeKeys :
            IF currentPage # 0
            THEN /\ AfterKeys(<<c>>).currentPage = 0
                 /\ AfterKeys(<<c>>).needsFullRedraw
                 /\ AfterPress(<<c>>).currentPage = 0
                 /\ AfterPress(<<c>>).redraw = "full"
                 /\ AfterPress(<<c>>).drawnPage = 0
            ELSE /\ AfterKeys(<<c>>).currentPage = 0
                 /\ AfterKeys(<<c>>).needsFullRedraw = needsFullRedraw
                 /\ AfterPress(<<c>>).currentPage = 0
                 /\ AfterPress(<<c>>).redraw = "full" <=> needsFullRedraw

\* the main page redrawn in full by a key press on a graph page with the
\* screen On
C13_Witness ==
    /\ ev.key = "press" /\ ~ev.wasOff
    /\ currentPage = 0 /\ ev.redraw = "full"
    /\ graph.page = 2

\* C14: whenever the temperature unit changes, the temperature cache is set
\* to the unset value and the page is redrawn in full in that iteration, so
\* that whenever the main page is next drawn the temperature field is really
\* redrawn, with the converted value: 20.0 C shows as 68.0 F although the
\* sensor value did not change
C14_UnitChangeRedrawsTemperature ==
    [][/\ useFahrenheit' # useFahrenheit =>
            /\ ev'.redraw = "full"
            /\ dispTemp' = Unset \/ (currentPage' = 0 /\ dispTemp' = ShownTemp')
       /\ (currentPage' = 0 /\ ev'.redraw = "full") =>
            /\ "dispTemp" \in ev'.drawn
            /\ dispTemp' = ShownTemp'
            /\ (useFahrenheit' /\ temperature' = Fix(20)) => dispTemp' = Fix(68)
       /\ (currentPage' = 0 /\ ev'.redraw = "incremental"
             /\ useFahrenheit /\ temperature' = Fix(20)) =>
            dispTemp' = Fix(68)]_vars

\* Fahrenheit selected, the main page drawn again and its temperature field
\* redrawn as 68.0 with the sensor still at 20.0 C
C14_Witness ==
    /\ useFahrenheit
    /\ temperature = Fix(20)
    /\ currentPage = 0 /\ ev.redraw = "full"
    /\ "dispTemp" \in ev.drawn
    /\ dispTemp = Fix(68)

\* C15: in every iteration the keyboard is handled before the timeout is
\* evaluated and the timeout before the redraw decision: a key press resets
\* the idle timer first, so the screen is never Off at the end of an
\* iteration that handled a key press, even when the timeout had run out; a
\* waking key gets its full redraw in the same iteration; and the keys of the
\* iteration after a wake are applied as usual
C15_InputThenPowerThenRedraw ==
    [][/\ ev'.key = "press" =>
            /\ lastActivityTime' = clock
            /\ screenState' = "SCREEN_ON"
            /\ brightness' = normalBrightness'
            /\ ~needsFullRedraw'
            /\ ev'.wasOff => (ev'.redraw = "full" /\ drawnPage' = currentPage')
       /\ ( /\ ev'.key = "press" /\ ev'.due /\ ~ev'.wasOff
            /\ currentPage = 0 /\ currentPage' = 0 )
          => ~PressWord(<<104>>)
       /\ ( /\ ev'.key = "press" /\ ev.key = "press" /\ ev.wasOff
            /\ currentPage = 0 /\ currentPage' = 0 )
          => ~PressWord(<<104>>)]_vars

\* a key pressed with the screen On after the 30 s timeout had run out: the
\* screen is still On and the key was obeyed, the main page reopened from the
\* settings page
C15_Witness ==
    /\ ev.key = "press" /\ ev.due /\ ~ev.wasOff
    /\ screenTimeoutOption = 1
    /\ screenState = "SCREEN_ON"
    /\ currentPage = 0 /\ ev.redraw = "full"

\* C17: every page transition, wake, cursor move, unit toggle, timeout
\* option change and brightness change sets the full-redraw flag, and the
\* full redraw of the same iteration clears it: at the end of every iteration
\* the flag is false and the page last drawn in full is the current page
C17_FlagServedInSameIteration ==
    [][/\ ~needsFullRedraw'
       /\ drawnPage' = currentPage'
       /\ ( \/ currentPage' # currentPage
            \/ ev'.wasOff /\ screenState' = "SCREEN_ON"
            \/ settingsSelection' # settingsSelection
            \/ useFahrenheit' # useFahrenheit
            \/ screenTimeoutOption' # screenTimeoutOption
            \/ normalBrightness' # normalBrightness )
          => ev'.redraw = "full"]_vars

\* the settings page drawn in full again by an iteration that lowered the
\* brightness, less than a display interval after startup
C17_Witness ==
    /\ ev.key = "press" /\ ev.redraw = "full"
    /\ clock < setupDelays + displayInterval
    /\ currentPage = 4 /\ drawnPage = 4
    /\ normalBrightness = 60
    /\ ~needsFullRedraw

\* the selection state of the user interface
Selection ==
    <<currentPage, normalBrightness, useFahrenheit, screenTimeoutOption,
      settingsSelection>>

\* C22: only the handling of a key press changes the selection state: an
\* iteration without a key-press event (a key release, sensor reads, a
\* timeout, redraws) leaves the current page, the brightness level, the
\* temperature unit, the timeout option and the settings cursor unchanged;
\* and the current page is always one of the five pages
C22_OnlyKeyPressesChangeSelection ==
    /\ [](currentPage \in 0..4)
    /\ [][ev'.key # "press" => Selection' = Selection]_vars

\* an iteration without a key press that turned the screen off on the
\* settings page, the 30 s timeout and its row still selected
C22_Witness ==
    /\ ev.key = "none" /\ ~ev.wasOff
    /\ screenState = "SCREEN_OFF"
    /\ currentPage = 4
    /\ settingsSelection = 2
    /\ screenTimeoutOption = 1

\* C23: whenever the screen is Off the timeout option is 10 s or 30 s, never
\* Always On: an iteration that begins with the screen Off changes neither
\* the option nor any other setting nor the page, so Off with Always On is
\* unreachable
C23_OffNeverWithAlwaysOn ==
    /\ [](screenState = "SCREEN_OFF" => screenTimeoutOption \in {0, 1})
    /\ [][screenState = "SCREEN_OFF" => Selection' = Selection]_vars

\* the screen Off under the 30 s timeout, after an iteration that began with
\* it Off
C23_Witness ==
    /\ screenState = "SCREEN_OFF"
    /\ ev.wasOff
    /\ screenTimeoutOption = 1
    /\ settingsSelection = 2

\* C24: after startup and at the end of every iteration the brightness last
\* commanded to the display is 0 when the screen is Off and the configured
\* normal brightness when it is On, whatever key presses, brightness
\* changes, timeouts and wakes came before
C24_BacklightFollowsScreenState ==
    brightness = IF screenState = "SCREEN_OFF" THEN 0 ELSE normalBrightness

\* the screen woken after the brightness was lowered to 60: the display is
\* back at 60
C24_Witness ==
    /\ ev.wasOff /\ ev.key = "press"
    /\ screenState = "SCREEN_ON"
    /\ normalBrightness = 60
    /\ brightness = 60

-----------------------------------------------------------------------------
(* The history specification: the loop left alone for an hour and more, one  *)
(* iteration a minute, the sensor reading changing at most MaxChanges times. *)

\* 22.5 C, 40 %, 1009 hPa
WarmReading == [t |-> Fix(22) + 50, h |-> Fix(40), p |-> Fix(1009)]

HistReadings == {RoomReading, WarmReading}

\* how often consecutive readings of seq differ
Changes(seq) == Cardinality({i \in 1..(Len(seq) - 1) : seq[i] # seq[i + 1]})

HistInit == script = <<>> /\ \E rd \in HistReadings : Setup(rd)

HistLoop ==
    \E rd \in HistReadings :
        /\ Len(appended) < MaxAppends
        /\ Changes(appended \o <<Current, rd>>) <= MaxChanges
        /\ Loop(Idle(FALSE), rd, historyInterval)
        /\ UNCHANGED script

HistNext == HistLoop

SpecHist == HistInit /\ [][HistNext]_vars

-----------------------------------------------------------------------------
(* C1 *)

Min2(a, b) == IF a < b THEN a ELSE b

\* the history read in logical order as the claim gives it: index
\* (historyIndex - historyCount + i) mod 60 for i = 0 .. historyCount - 1
LogicalRead(history) ==
    [k \in 1..historyCount |->
        history[(historyIndex - historyCount + (k - 1)) % historySize]]

\* the last n samples stored, oldest first
LastStored(n) == SubSeq(appended, Len(appended) - n + 1, Len(appended))

Column(seq, f) == [k \in 1..Len(seq) |-> seq[k][f]]

\* C1: after k >= 1 appends the history read in logical order is exactly the
\* most recent min(k, 60) samples appended, oldest first, in each of the three
\* buffers, and the rendering loops of the graph page read that same sequence;
\* after 61 appends a first sample unlike the later ones is no longer read and
\* the 61st is the last one read.
C1_ReadOrderedIsLastSamples ==
    LET k == Len(appended)
        n == Min2(k, historySize)
        last == LastStored(n)
    IN  /\ k >= 1
        /\ historyCount = n
        /\ LogicalRead(tempHistory) = Column(last, "t")
        /\ LogicalRead(humidityHistory) = Column(last, "h")
        /\ LogicalRead(pressureHistory) = Column(last, "p")
        /\ ReadOrdered(State, tempHistory, FALSE) = LogicalRead(tempHistory)
        /\ k = historySize + 1 =>
              /\ LogicalRead(tempHistory)[historySize] = appended[k].t
              /\ (\A j \in 2..k : appended[j] # appended[1]) =>
                    \A i \in 1..historySize :
                        LogicalRead(tempHistory)[i] # appended[1].t

\* 61 samples stored, the first unlike all the later ones: the ring has wrapped
C1_Witness ==
    /\ Len(appended) = historySize + 1
    /\ \A j \in 2..Len(appended) : appended[j] # appended[1]
    /\ historyCount = historySize
    /\ historyIndex = 1

\* C19 as stated: after startup and before the first iteration the three
\* history buffers are empty, count 0; the count only grows, by appends made
\* at the 60 s interval, and is never decreased or reset
C19_EmptyAfterStartup ==
    /\ historyCount = 0
    /\ [][/\ historyCount' >= historyCount
          /\ historyCount' # historyCount =>
               (ev'.stored /\ clock - lastHistoryUpdate >= historyInterval)]_vars

\* C19, amended: after startup and before the first iteration each of the
\* three history buffers holds one sample, the reading setup took, count 1;
\* the count then only grows, by one per append of the loop made when at
\* least 60000 ms have passed since the previous one (since power-on for the
\* first), up to 60, and is never decreased or reset
C19_OneSampleAfterStartup ==
    /\ historyCount = 1
    /\ ReadOrdered(State, tempHistory, FALSE) = <<temperature>>
    /\ ReadOrdered(State, humidityHistory, FALSE) = <<humidity>>
    /\ ReadOrdered(State, pressureHistory, FALSE) = <<pressure>>
    /\ [][/\ historyCount' >= historyCount
          /\ historyCount' =
                IF ev'.stored /\ historyCount < historySize
                THEN historyCount + 1 ELSE historyCount
          /\ ev'.stored => clock - lastHistoryUpdate >= historyInterval]_vars

\* the count grown to 60 and kept there by two more appends
C19_Witness ==
    /\ ev.stored
    /\ historyCount = historySize
    /\ Len(appended) = historySize + 2

\* the buffer positions the loops of drawGraphPageStatic read
ReadPositions == {ReadIdx(State, i) : i \in 0..(historyCount - 1)}

\* C20: in every reachable state 0 <= historyIndex < 60 and, after startup,
\* 1 <= historyCount <= 60; the three buffers are indexed alike, by the one
\* cursor and the one count; and every index the renderer and the append
\* compute lies in 0 .. 59, historyIndex - historyCount + i + 60 never being
\* negative
C20_IndicesInRange ==
    /\ historyIndex \in 0..(historySize - 1)
    /\ historyCount \in 1..historySize
    /\ DOMAIN tempHistory = 0..(historySize - 1)
    /\ DOMAIN humidityHistory = DOMAIN tempHistory
    /\ DOMAIN pressureHistory = DOMAIN tempHistory
    /\ \A i \in 0..(historyCount - 1) :
          historyIndex - historyCount + i + historySize >= 0
    /\ ReadPositions \subseteq DOMAIN tempHistory
    /\ Cardinality(ReadPositions) = historyCount
    /\ updateHistory(State, lastHistoryUpdate + historyInterval).historyIndex
          \in DOMAIN tempHistory

\* the buffers full and the cursor wrapped to 0, where the oldest sample is
\* read at historyIndex - historyCount + 0 + 60 = 0
C20_Witness ==
    /\ historyCount = historySize
    /\ historyIndex = 0
    /\ Len(appended) = historySize
    /\ ReadIdx(State, 0) = 0
    /\ ReadIdx(State, historySize - 1) = historySize - 1

-----------------------------------------------------------------------------
(* The scaling specification.  It starts where a scripted run of the loop    *)
(* has left the program: the unit chosen in Settings or left alone, then one *)
(* sample a minute from a family of sample logs; from there the graph pages  *)
(* are opened and closed by key presses.                                     *)

\* the reading off by d hundredths (twice that for the humidity)
Shifted(rd, d) == [t |-> rd.t + d, h |-> rd.h + 2 * d, p |-> rd.p + d]

\* how many samples the logs of the family hold
ScaleLengths == {1, 2, 3, historySize, historySize + 1, historySize + 2}

\* deviations of one low and one high sample from the others, in hundredths
LowOffsets == {0, -50, -100, -300}

HighOffsets == {0, 50, 100, 300}

\* a log of k samples, all RoomReading but a low one at a and a high one at b
SampleLog(k, a, lo, b, hi) ==
    [j \in 1..k |-> IF j = a THEN Shifted(RoomReading, lo)
                    ELSE IF j = b THEN Shifted(RoomReading, hi)
                    ELSE RoomReading]

\* the iterations that select Fahrenheit: S and down, right, ESC; the next
\* iteration follows after dt
SelectFahrenheit(rd, dt) ==
    << [kb |-> Pressed(<<115, 46>>), rd |-> rd, dt |-> loopDelay],
       [kb |-> Pressed(<<47>>), rd |-> rd, dt |-> loopDelay],
       [kb |-> Pressed(<<96>>), rd |-> rd, dt |-> dt] >>

LeaveCelsius(rd, dt) ==
    << [kb |-> Idle(FALSE), rd |-> rd, dt |-> dt] >>

\* one idle iteration a minute for the samples 2 .. Len(log), the last one
\* followed by the bare delay
Sampling(log) ==
    [j \in 1..(Len(log) - 1) |->
        [kb |-> Idle(FALSE), rd |-> log[j + 1],
         dt |-> IF j + 1 = Len(log) THEN loopDelay ELSE historyInterval]]

\* key presses after the scripted run, beyond the three of SelectFahrenheit
MaxViews == 2

ScaleInit ==
    \E k \in ScaleLengths, f \in BOOLEAN, lo \in LowOffsets, hi \in HighOffsets :
    \E a \in {1, 2, k - 1, k} \cap (1..k), b \in {1, 2, k - 1, k} \cap (1..k) :
    \E log \in {SampleLog(k, a, lo, b, hi)} :
        /\ Setup(log[1])
        /\ script =
              LET dt == IF k = 1 THEN loopDelay ELSE historyInterval
              IN  (IF f THEN SelectFahrenheit(log[1], dt)
                        ELSE LeaveCelsius(log[1], dt)) \o Sampling(log)

\* the next iteration of the script, a sequence of iterations [kb, rd, dt]
ScaleScripted ==
    /\ script # <<>>
    /\ Loop(Head(script).kb, Head(script).rd, Head(script).dt)
    /\ script' = Tail(script)

\* the script done: T, h, P or ESC pressed, the reading unchanged
ScaleKeyPress ==
    \E w \in {<<84>>, <<104>>, <<80>>, <<96>>} :
        /\ script = <<>>
        /\ (clock + loopDelay - setupDelays) % historyInterval
               <= (MaxViews + 3) * loopDelay
        /\ Loop(Pressed(w), Current, loopDelay)
        /\ UNCHANGED script

ScaleNext == ScaleScripted \/ ScaleKeyPress

SpecScale == ScaleInit /\ [][ScaleNext]_vars

-----------------------------------------------------------------------------
(* C9, C10 *)

SetMin(S) == CHOOSE x \in S : \A y \in S : x <= y

SetMax(S) == CHOOSE x \in S : \A y \in S : x >= y

\* the samples of the plotted metric that are stored, converted as plotted:
\* the last min(k, 60) of the k samples stored so far
StoredValues ==
    LET last == LastStored(Min2(Len(appended), historySize))
        f == CASE graph.page = 1 -> "t" [] graph.page = 2 -> "h" [] OTHER -> "p"
    IN  {IF graph.page = 1 /\ useFahrenheit THEN ToFahrenheit(last[i][f])
         ELSE last[i][f] : i \in 1..Len(last)}

\* C9: a graph drawn from at least 2 samples whose converted values span less
\* than 2.0 has the bounds mid - 1.0 and mid + 1.0, mid = (max + min) / 2:
\* a span of exactly 2.0 centred on the midpoint.
C9_FlatSeriesSpansTwo ==
    (graph.page # 0 /\ Len(appended) >= 2) =>
        LET mn == SetMin(StoredValues)
            mx == SetMax(StoredValues)
        IN  /\ graph.shown = "plot"
            /\ mx - mn < Fix(2) =>
                  /\ 2 * graph.graphMin = (mx + mn) - 2 * Fix(1)
                  /\ 2 * graph.graphMax = (mx + mn) + 2 * Fix(1)
                  /\ graph.graphMax - graph.graphMin = Fix(2)
                  /\ graph.range = Fix(2)

\* a Fahrenheit temperature graph of a wrapped history, two values 1.8 apart
C9_Witness ==
    /\ graph.page = 1 /\ graph.shown = "plot" /\ useFahrenheit
    /\ Len(appended) = historySize + 1
    /\ SetMax(StoredValues) - SetMin(StoredValues) = 180
    /\ graph.graphMax - graph.graphMin = Fix(2)

\* C10: a graph drawn from at least 2 samples whose converted values span 2.0
\* or more has the bounds min - 0.1 * range and max + 0.1 * range, min and max
\* taken over exactly the stored samples.
C10_WideSeriesPaddedTenth ==
    (graph.page # 0 /\ Len(appended) >= 2) =>
        LET mn == SetMin(StoredValues)
            mx == SetMax(StoredValues)
        IN  /\ graph.shown = "plot"
            /\ mx - mn >= Fix(2) =>
                  /\ 10 * graph.graphMin = 10 * mn - (mx - mn)
                  /\ 10 * graph.graphMax = 10 * mx + (mx - mn)

\* a Fahrenheit temperature graph of a wrapped history whose first sample,
\* overwritten by the 61st, was lower than every sample still stored
C10_Witness ==
    /\ graph.shown = "plot" /\ graph.page = 1 /\ useFahrenheit
    /\ Len(appended) = historySize + 1
    /\ \A j \in 2..Len(appended) : appended[1].t < appended[j].t
    /\ SetMax(StoredValues) - SetMin(StoredValues) = 540
    /\ graph.graphMax - graph.graphMin = 540 + 2 * 54

-----------------------------------------------------------------------------
(* The display specification: the sensors drift by a few hundredths from     *)
(* one iteration to the next while the pages are visited.  The unit stays    *)
(* Celsius, so every comparison of hundredths is exact.                      *)

\* how many display intervals a run lasts
MaxSeconds == 4

\* the drift of the temperature and the pressure, in hundredths; the humidity
\* drifts twice as far
DisplayOffsets == {0, 2, 5, -3}

DisplayReadings == {Shifted(RoomReading, d) : d \in DisplayOffsets}

\* an iteration lasts the 50 ms delay, or long enough for the 1 Hz update
DisplayDeltas == {loopDelay, displayInterval}

\* at most MaxSeconds display intervals and one short iteration beyond a
\* whole number of them
DisplayTimeOK(t) ==
    /\ t <= setupDelays + MaxSeconds * displayInterval
    /\ (t - setupDelays) % displayInterval <= loopDelay

DisplayInit == script = <<>> /\ Setup(RoomReading)

DisplayIdle ==
    \E rd \in DisplayReadings, dt \in DisplayDeltas :
        DisplayTimeOK(clock + dt) /\ Loop(Idle(FALSE), rd, dt) /\ UNCHANGED script

\* 't', 'h', 'p' or '`' pressed
DisplayKeyPress ==
    \E w \in {<<116>>, <<104>>, <<112>>, <<96>>}, rd \in DisplayReadings,
       dt \in DisplayDeltas :
        DisplayTimeOK(clock + dt) /\ Loop(Pressed(w), rd, dt) /\ UNCHANGED script

DisplayNext == DisplayIdle \/ DisplayKeyPress

SpecDisplay == DisplayInit /\ [][DisplayNext]_vars

\* the values differ by at least 0.05
Far(a, b) == a - b >= 5 \/ b - a >= 5

\* what an incremental update of the field with cache dispValue does when the
\* value to show is value: drawn and cached when Far, otherwise nothing
FieldUpdated(field, value, dispValue, dispValueAfter, drawn) ==
    IF Far(value, dispValue)
    THEN dispValueAfter = value /\ field \in drawn
    ELSE dispValueAfter = dispValue /\ field \notin drawn

\* the value the graph page shows beside its title
GraphValue ==
    CASE currentPage = 1 -> ShownTemp
      [] currentPage = 2 -> humidity
      [] OTHER -> pressure

\* C11: an incremental update of a numeric field clears and redraws the field
\* and sets its cache to the new value exactly when the new value differs
\* from the cached one by at least 0.05; otherwise the cache is unchanged and
\* nothing is drawn, so repeating the update with the same value does nothing
C11_IncrementalUpdateThreshold ==
    [][ev'.redraw = "incremental" =>
          /\ currentPage' = 0 =>
               /\ FieldUpdated("dispTemp", ShownTemp', dispTemp, dispTemp',
                               ev'.drawn)
               /\ FieldUpdated("dispHumidity", humidity', dispHumidity,
                               dispHumidity', ev'.drawn)
               /\ FieldUpdated("dispPressure", pressure', dispPressure,
                               dispPressure', ev'.drawn)
          /\ currentPage' \in 1..3 =>
               FieldUpdated("graph", GraphValue', graphDispValue,
                            graphDispValue', ev'.drawn)
          /\ currentPage' # 0 =>
               /\ dispTemp' = dispTemp
               /\ dispHumidity' = dispHumidity
               /\ dispPressure' = dispPressure
          /\ currentPage' \notin 1..3 => graphDispValue' = graphDispValue]_vars

\* an incremental update of the main page that redraws the humidity, 0.06
\* off its cache, and leaves the temperature, 0.03 off its cache, alone
C11_Witness ==
    /\ ev.redraw = "incremental"
    /\ currentPage = 0
    /\ ev.drawn = {"dispHumidity"}
    /\ dispHumidity = humidity
    /\ Far(temperature, dispTemp) = FALSE
    /\ temperature # dispTemp

-----------------------------------------------------------------------------
(* The cadence specification: the device is left alone for a minute or more, *)
(* with or without the 10 s timeout selected and the temperature graph       *)
(* opened first, while the room warms and a key is pressed now and then.  It *)
(* follows the times at which samples are stored and what is plotted.        *)

\* how many history intervals a run lasts
MaxMinutes == 2

\* an iteration lasts the 50 ms delay, or an idle stretch as long as setup's
\* delays or as the shorter timeout
CadenceDeltas == {loopDelay, setupDelays, screenTimeoutValues[1]}

\* at most MaxMinutes history intervals, and at most one short iteration
\* beyond a whole number of stretches
CadenceTimeOK(t) ==
    /\ t <= setupDelays + MaxMinutes * historyInterval
    /\ (t - setupDelays) % setupDelays <= loopDelay

\* the room warms by half a degree every 10 s
CadenceReading(now) ==
    Shifted(RoomReading, 50 * ((now - setupDelays) \div screenTimeoutValues[1]))

\* S and '.', then '.' and ',', then ',': the timeout row, 30 s, 10 s
SelectShortTimeout ==
    << [kb |-> Pressed(<<115, 46>>), rd |-> RoomReading, dt |-> setupDelays],
       [kb |-> Pressed(<<46, 44>>), rd |-> RoomReading, dt |-> setupDelays],
       [kb |-> Pressed(<<44>>), rd |-> RoomReading, dt |-> setupDelays] >>

\* 't': the temperature graph
OpenGraph ==
    << [kb |-> Pressed(<<116>>), rd |-> RoomReading, dt |-> setupDelays] >>

\* the 10 s timeout selected, then '`' and 't': the temperature graph
SelectShortTimeoutThenGraph ==
    SelectShortTimeout \o
    << [kb |-> Pressed(<<96>>), rd |-> RoomReading, dt |-> setupDelays] >> \o
    OpenGraph

CadenceInit ==
    /\ Setup(RoomReading)
    /\ script \in {<<>>, SelectShortTimeout, OpenGraph, SelectShortTimeoutThenGraph}

\* the next scripted key press, the room warming meanwhile
CadenceScripted ==
    /\ script # <<>>
    /\ Loop(Head(script).kb, CadenceReading(clock), Head(script).dt)
    /\ script' = Tail(script)

CadenceIdle ==
    \E dt \in CadenceDeltas :
        /\ script = <<>>
        /\ CadenceTimeOK(clock + dt)
        /\ Loop(Idle(FALSE), CadenceReading(clock), dt)
        /\ UNCHANGED script

\* 'x' pressed: it wakes the screen or only resets the idle timer
CadenceKeyPress ==
    \E dt \in CadenceDeltas :
        /\ script = <<>>
        /\ CadenceTimeOK(clock + dt)
        /\ Loop(Pressed(<<120>>), CadenceReading(clock), dt)
        /\ UNCHANGED script

CadenceNext == CadenceScripted \/ CadenceIdle \/ CadenceKeyPress

SpecCadence == CadenceInit /\ [][CadenceNext]_vars

\* when the newest sample was written: setup writes the first one as its
\* delays end, updateHistory records the time of each of its own
LastWrite == IF Len(appended) = 1 THEN setupDelays ELSE lastHistoryUpdate

\* C16: two consecutive writes to the history are at least 60000 ms apart,
\* the sample stored at startup and the first append of the loop included,
\* and an iteration appends at most once
C16_WritesAMinuteApart ==
    [][/\ ev'.stored => clock - LastWrite >= historyInterval
       /\ Len(appended') <= Len(appended) + 1]_vars

\* C18 as stated: the sensor values are pulled and appended to the history
\* only in iterations where the screen is On; an iteration that finds or
\* leaves the screen Off neither pulls nor appends
C18_SensorsOnlyWhileOn ==
    [][screenState' = "SCREEN_OFF" =>
          /\ ~ev'.stored
          /\ appended' = appended
          /\ Current' = Current]_vars

\* C18, amended: the sensor values are pulled in every iteration and appended
\* to the history whenever 60000 ms have passed since the last append of the
\* loop, whether the screen is On or Off; only the redraw needs the screen On
C18_SensorsWhateverTheScreen ==
    [][/\ Current' = CadenceReading(clock)
       /\ ev'.stored <=> clock - lastHistoryUpdate >= historyInterval
       /\ ev'.stored =>
            /\ appended' = Append(appended, Current')
            /\ tempHistory'[historyIndex] = temperature'
            /\ humidityHistory'[historyIndex] = humidity'
            /\ pressureHistory'[historyIndex] = pressure'
            /\ lastHistoryUpdate' = clock
       /\ ~ev'.stored => appended' = appended
       /\ screenState' = "SCREEN_OFF" => ev'.redraw = "none"]_vars

\* a sample appended by an iteration that began and ended with the screen
\* Off, holding a reading taken after the screen went off
C18_Witness ==
    /\ ev.stored /\ ev.wasOff
    /\ screenState = "SCREEN_OFF"
    /\ Len(appended) = 2
    /\ appended[2] = Current
    /\ appended[2] # appended[1]
    /\ ReadOrdered(State, tempHistory, FALSE) = <<appended[1].t, appended[2].t>>

\* the samples a full redraw of the current graph page would plot now
PlottedNow ==
    CASE currentPage = 1 -> ReadOrdered(State, tempHistory, useFahrenheit)
      [] currentPage = 2 -> ReadOrdered(State, humidityHistory, FALSE)
      [] OTHER -> ReadOrdered(State, pressureHistory, FALSE)

\* C25: the polyline, the point markers and the min/max labels of a graph
\* are drawn only by a full redraw: an iteration without a full redraw
\* leaves the plotted graph as it was, an incremental update of a graph page
\* redraws at most the current-value field, and so a sample appended while
\* the graph page stays current is not plotted until the next full redraw,
\* which plots the history as it then is
C25_GraphPlottedOnlyByFullRedraw ==
    [][/\ ev'.redraw # "full" => graph' = graph
       /\ (ev'.redraw = "incremental" /\ currentPage' \in 1..3) =>
            ev'.drawn \subseteq {"graph"}
       /\ (ev'.redraw = "full" /\ currentPage' \in 1..3) =>
            /\ graph'.page = currentPage'
            /\ graph'.shown = IF historyCount' > 1 THEN "plot" ELSE "collecting"
            /\ historyCount' > 1 => graph'.points = PlottedNow']_vars

\* the third sample appended by an incremental update of the temperature
\* graph, which redrew the value field: the plot still shows two samples
C25_Witness ==
    /\ ev.stored /\ ev.redraw = "incremental"
    /\ currentPage = 1
    /\ ev.drawn = {"graph"}
    /\ historyCount = 3
    /\ graph.page = 1 /\ graph.shown = "plot"
    /\ Len(graph.points) = 2
    /\ graph.points # PlottedNow

-----------------------------------------------------------------------------
(* The redraw specification: iterations one display interval or one timeout  *)
(* apart, with or without the 10 s timeout selected first, and keys that     *)
(* wake the screen or change the page.                                       *)

\* how many display intervals a run lasts
MaxTicks == 14

\* an iteration lasts the 50 ms delay, one display interval or one timeout
RedrawDeltas == {loopDelay, displayInterval, screenTimeoutValues[1]}

\* at most MaxTicks display intervals and one short iteration beyond a whole
\* number of them
RedrawTimeOK(t) ==
    /\ t <= setupDelays + MaxTicks * displayInterval
    /\ (t - setupDelays) % displayInterval <= loopDelay

\* the keys of SelectShortTimeout pressed one display interval apart
SelectShortTimeoutFast ==
    [i \in 1..Len(SelectShortTimeout) |->
        [SelectShortTimeout[i] EXCEPT !.dt = displayInterval]]

RedrawInit == Setup(RoomReading) /\ script \in {<<>>, SelectShortTimeoutFast}

RedrawScripted ==
    /\ script # <<>>
    /\ Loop(Head(script).kb, Head(script).rd, Head(script).dt)
    /\ script' = Tail(script)

RedrawIdle ==
    \E dt \in RedrawDeltas :
        /\ script = <<>>
        /\ RedrawTimeOK(clock + dt)
        /\ Loop(Idle(FALSE), Current, dt)
        /\ UNCHANGED script

\* 'x', 'h' or '`' pressed
RedrawKeyPress ==
    \E w \in {<<120>>, <<104>>, <<96>>}, dt \in RedrawDeltas :
        /\ script = <<>>
        /\ RedrawTimeOK(clock + dt)
        /\ Loop(Pressed(w), Current, dt)
        /\ UNCHANGED script

RedrawNext == RedrawScripted \/ RedrawIdle \/ RedrawKeyPress

SpecRedraw == RedrawInit /\ [][RedrawNext]_vars

\* C21: an iteration makes the incremental redraw exactly when the screen is
\* On, no full redraw is pending or requested by its keys, and at least
\* 1000 ms have passed since the last redraw of either kind; a full redraw
\* is made only on request and restarts the 1000 ms, and no iteration makes
\* both redraws
C21_IncrementalAtOneHertz ==
    [][/\ ev'.redraw = "incremental" <=>
            /\ screenState' = "SCREEN_ON"
            /\ ev'.redraw # "full"
            /\ clock - lastDisplayUpdate >= displayInterval
       /\ ev'.redraw = "full" =>
            /\ screenState' = "SCREEN_ON"
            /\ needsFullRedraw \/ ev'.key = "press"
            /\ lastDisplayUpdate' = clock
            /\ drawnPage' = currentPage'
       /\ ev'.redraw = "incremental" =>
            /\ lastDisplayUpdate' = clock
            /\ drawnPage' = drawnPage
            /\ graph' = graph
            /\ ~needsFullRedraw /\ currentPage' = currentPage
       /\ ev'.redraw = "none" => lastDisplayUpdate' = lastDisplayUpdate
       /\ screenState' = "SCREEN_ON" => clock' - lastDisplayUpdate' >= 0]_vars

\* an incremental redraw exactly 1000 ms after a full redraw that a key press
\* asked for
C21_Witness ==
    /\ ev.redraw = "incremental"
    /\ currentPage = 2 /\ drawnPage = 2
    /\ screenTimeoutOption = 0
    /\ lastDisplayUpdate - lastActivityTime = displayInterval
    /\ screenState = "SCREEN_ON"

====
